---- MODULE Spec2Model ----
(***************************************************************************)
(* Model of kana2's post filter (src/kana2/filtering.py): the query        *)
(* classifier and driver `search`, the aggregator `_filter_post`, and the  *)
(* term evaluators `_tag_present` and `_meta_num_match`.                   *)
(*                                                                         *)
(* A Python str is a sequence of one-character strings.  A Python          *)
(* exception is a record with raised = TRUE.  The iteration order of a     *)
(* Python set is not fixed by the language, so every loop over a set is    *)
(* modelled over an arbitrary ordering of it.                              *)
(*                                                                         *)
(* Of META_NUM_TAGS the entries with a float, ratio or date-lambda         *)
(* converter (mpixels, ratio, date) are left out; every other entry is     *)
(* modelled.                                                               *)
(***************************************************************************)
EXTENDS Integers, Sequences, FiniteSets, TLC

(***************************************************************************)
(* Bounds of the model                                                     *)
(***************************************************************************)
MaxTerms == 3
MaxClassifyTerms == 3
MaxNumericTerms == 2
MaxPosts == 2

MaxAggregateTerms == 3

(***************************************************************************)
(* Python str helpers                                                      *)
(***************************************************************************)
Range(s) == {s[i] : i \in 1..Len(s)}

\* s[i:] with a 1-based start; empty when past the end
Drop(s, n) == IF n >= Len(s) THEN <<>> ELSE SubSeq(s, n + 1, Len(s))

Take(s, n) == IF n <= 0 THEN <<>> ELSE SubSeq(s, 1, IF n > Len(s) THEN Len(s) ELSE n)

startswith(s, p) == Len(p) <= Len(s) /\ SubSeq(s, 1, Len(p)) = p

endswith(s, p) == Len(p) <= Len(s) /\ SubSeq(s, Len(s) - Len(p) + 1, Len(s)) = p

\* 1-based positions at which sub occurs in s
Occurrences(sub, s) ==
    {i \in 1..(Len(s) - Len(sub) + 1) : SubSeq(s, i, i + Len(sub) - 1) = sub}

\* Python's `sub in s`
Contains(sub, s) == Len(sub) = 0 \/ Occurrences(sub, s) # {}

Min(S) == CHOOSE x \in S : \A y \in S : x <= y

\* s.split(sep, maxsplit=1)
SplitOnce(s, sep) ==
    IF Occurrences(sep, s) = {} THEN <<s>>
    ELSE LET i == Min(Occurrences(sep, s))
         IN  <<Take(s, i - 1), Drop(s, i + Len(sep) - 1)>>

\* s.split(sep)
RECURSIVE Split(_, _)
Split(s, sep) ==
    IF Occurrences(sep, s) = {} THEN <<s>>
    ELSE LET i == Min(Occurrences(sep, s))
         IN  <<Take(s, i - 1)>> \o Split(Drop(s, i + Len(sep) - 1), sep)

\* s.split(): the whitespace-delimited tokens of s (space is the only
\* whitespace character of the model's alphabet)
RECURSIVE Words(_)
Words(s) ==
    IF s = <<>> THEN <<>>
    ELSE IF Head(s) = " " THEN Words(Tail(s))
    ELSE LET ends == {i \in 1..Len(s) : s[i] = " "}
             n    == IF ends = {} THEN Len(s) ELSE Min(ends) - 1
         IN  <<Take(s, n)>> \o Words(Drop(s, n))

\* " ".join(words)
RECURSIVE Join(_)
Join(ws) ==
    IF ws = <<>> THEN <<>>
    ELSE IF Len(ws) = 1 THEN ws[1]
    ELSE ws[1] \o <<" ">> \o Join(Tail(ws))

(***************************************************************************)
(* shlex.split(s): POSIX mode, no comments.  Whitespace separates tokens,  *)
(* ' and " quote, \ escapes outside quotes and (before " or \) inside      *)
(* double quotes.  The result is [raised, tokens]; an unclosed quotation   *)
(* or a trailing escape raises ValueError.                                 *)
(*   st: " " between tokens, "a" in a word, "'" or "\"" in a quotation,    *)
(*       "\\" after an escape character (esc is the state to return to)    *)
(***************************************************************************)
RECURSIVE shlex_read(_, _, _, _, _, _)
shlex_read(s, i, st, esc, tok, toks) ==
    IF i > Len(s) THEN
        IF st \in {"'", "\"", "\\"} THEN [raised |-> TRUE, tokens |-> <<>>]
        ELSE IF st = "a" THEN [raised |-> FALSE, tokens |-> Append(toks, tok)]
        ELSE [raised |-> FALSE, tokens |-> toks]
    ELSE LET c == s[i] IN
        IF st = " " THEN
            IF c = " " THEN shlex_read(s, i + 1, " ", esc, <<>>, toks)
            ELSE IF c = "\\" THEN shlex_read(s, i + 1, "\\", "a", <<>>, toks)
            ELSE IF c \in {"'", "\""} THEN shlex_read(s, i + 1, c, esc, <<>>, toks)
            ELSE shlex_read(s, i + 1, "a", esc, <<c>>, toks)
        ELSE IF st \in {"'", "\""} THEN
            IF c = st THEN shlex_read(s, i + 1, "a", esc, tok, toks)
            ELSE IF c = "\\" /\ st = "\"" THEN shlex_read(s, i + 1, "\\", st, tok, toks)
            ELSE shlex_read(s, i + 1, st, esc, Append(tok, c), toks)
        ELSE IF st = "\\" THEN
            IF esc \in {"'", "\""} /\ c # "\\" /\ c # esc
            THEN shlex_read(s, i + 1, esc, esc, tok \o <<"\\", c>>, toks)
            ELSE shlex_read(s, i + 1, esc, esc, Append(tok, c), toks)
        ELSE \* st = "a"
            IF c = " " THEN shlex_read(s, i + 1, " ", esc, <<>>, Append(toks, tok))
            ELSE IF c \in {"'", "\""} THEN shlex_read(s, i + 1, c, esc, tok, toks)
            ELSE IF c = "\\" THEN shlex_read(s, i + 1, "\\", "a", tok, toks)
            ELSE shlex_read(s, i + 1, "a", esc, Append(tok, c), toks)

shlex_split(s) == shlex_read(s, 1, " ", "a", <<>>, <<>>)

(***************************************************************************)
(* Converters of META_NUM_TAGS.  A conversion yields [ok, v]; ok = FALSE   *)
(* stands for the exception the converter raises.  Converted values are    *)
(* integers: ints, byte counts, and dates as day numbers.                  *)
(***************************************************************************)
DigitChars == <<"0", "1", "2", "3", "4", "5", "6", "7", "8", "9">>

IsDigits(s) == Len(s) > 0 /\ \A i \in 1..Len(s) : s[i] \in Range(DigitChars)

DigitVal(c) == (CHOOSE i \in 1..10 : DigitChars[i] = c) - 1

RECURSIVE ParseNat(_)
ParseNat(s) ==
    IF s = <<>> THEN 0
    ELSE 10 * ParseNat(SubSeq(s, 1, Len(s) - 1)) + DigitVal(s[Len(s)])

RECURSIVE NatToStr(_)
NatToStr(n) ==
    IF n < 10 THEN <<DigitChars[n + 1]>>
    ELSE Append(NatToStr(n \div 10), DigitChars[(n % 10) + 1])

RECURSIVE strip(_)
strip(s) ==
    IF s # <<>> /\ Head(s) = " " THEN strip(Tail(s))
    ELSE IF s # <<>> /\ s[Len(s)] = " " THEN strip(SubSeq(s, 1, Len(s) - 1))
    ELSE s

Failed == [ok |-> FALSE, v |-> 0]

Converted(n) == [ok |-> TRUE, v |-> n]

\* int(s) for a str: surrounding whitespace, an optional sign, digits
int(s) ==
    LET t == strip(s)
        u == IF t # <<>> /\ Head(t) \in {"+", "-"} THEN Tail(t) ELSE t
    IN  IF ~IsDigits(u) THEN Failed
        ELSE IF t[1] = "-" THEN Converted(0 - ParseNat(u))
        ELSE Converted(ParseNat(u))

\* the day number of arrow.now()
Now == 100

\* utils.age2date(s): "<n>d" or "<n>w", an age counted back from now
age2date(s) ==
    LET n == Len(s) IN
    IF n >= 2 /\ s[n] \in {"d", "w"} /\ IsDigits(SubSeq(s, 1, n - 1))
    THEN Converted(Now - ParseNat(SubSeq(s, 1, n - 1)) * (IF s[n] = "w" THEN 7 ELSE 1))
    ELSE Failed

\* utils.human2bytes(s): "<n>" bytes or "<n>k" kibibytes
human2bytes(s) ==
    LET n == Len(s) IN
    IF IsDigits(s) THEN Converted(ParseNat(s))
    ELSE IF n >= 2 /\ s[n] = "k" /\ IsDigits(SubSeq(s, 1, n - 1))
    THEN Converted(ParseNat(SubSeq(s, 1, n - 1)) * 1024)
    ELSE Failed

\* convert(value) for a str taken from the query
ConvertStr(convert, s) ==
    IF convert = "int" THEN int(s)
    ELSE IF convert = "age2date" THEN age2date(s)
    ELSE human2bytes(s)

\* convert(post["info"][field]): the filter is handed posts whose fields are
\* present and convertible; a number or date converts to itself
ConvertField(convert, post, field) == post[field]

\* bool(info_v): an int is truthy iff non-zero, a date object always
Truthy(convert, info_v) == IF convert = "age2date" THEN TRUE ELSE info_v # 0

\* str(info_v); the text of a date is outside the query alphabet
str(convert, info_v) ==
    IF convert = "age2date" THEN <<"@">> \o NatToStr(info_v)
    ELSE IF info_v < 0 THEN <<"-">> \o NatToStr(0 - info_v)
    ELSE NatToStr(info_v)

(***************************************************************************)
(* The metatag tables                                                      *)
(***************************************************************************)
META_NUM_TAGS ==
    (<<"w","i","d","t","h">> :> [field |-> "image_width", convert |-> "int", flags |-> {}]) @@
    (<<"h","e","i","g","h","t">> :> [field |-> "image_height", convert |-> "int", flags |-> {}]) @@
    (<<"s","c","o","r","e">> :> [field |-> "score", convert |-> "int", flags |-> {}]) @@
    (<<"f","a","v","c","o","u","n","t">> :> [field |-> "fav_count", convert |-> "int", flags |-> {}]) @@
    (<<"i","d">> :> [field |-> "id", convert |-> "int", flags |-> {}]) @@
    (<<"p","i","x","i","v">> :> [field |-> "pixiv_id", convert |-> "int", flags |-> {}]) @@
    (<<"p","i","x","i","v","_","i","d">> :> [field |-> "pixiv_id", convert |-> "int", flags |-> {}]) @@
    (<<"t","a","g","c","o","u","n","t">> :> [field |-> "tag_count", convert |-> "int", flags |-> {}]) @@
    (<<"g","e","n","t","a","g","s">> :> [field |-> "tag_count_general", convert |-> "int", flags |-> {}]) @@
    (<<"a","r","t","t","a","g","s">> :> [field |-> "tag_count_artist", convert |-> "int", flags |-> {}]) @@
    (<<"c","h","a","r","t","a","g","s">> :> [field |-> "tag_count_character", convert |-> "int", flags |-> {}]) @@
    (<<"c","o","p","y","t","a","g","s">> :> [field |-> "tag_count_copyright", convert |-> "int", flags |-> {}]) @@
    (<<"m","e","t","a","t","a","g","s">> :> [field |-> "tag_count_meta", convert |-> "int", flags |-> {}]) @@
    (<<"a","g","e">> :> [field |-> "created_at", convert |-> "age2date", flags |-> {"reverse_cmp"}]) @@
    (<<"p","a","r","e","n","t">> :> [field |-> "parent_id", convert |-> "int", flags |-> {}]) @@
    (<<"c","h","i","l","d">> :> [field |-> "children_num", convert |-> "int", flags |-> {}]) @@
    (<<"f","i","l","e","s","i","z","e">> :> [field |-> "file_size", convert |-> "human2bytes", flags |-> {"eq_fuzzy_20"}]) @@
    (<<"d","l","s","i","z","e">> :> [field |-> "dl_size", convert |-> "human2bytes", flags |-> {}])

\* name -> predicate; "None" is the table's None
META_STR_TAGS_FUNCS ==
    (<<"m","d","5">> :> "md5") @@
    (<<"f","i","l","e","t","y","p","e">> :> "filetype") @@
    (<<"d","l","t","y","p","e">> :> "dltype") @@
    (<<"r","a","t","i","n","g">> :> "rating") @@
    (<<"l","o","c","k","e","d">> :> "locked") @@
    (<<"s","t","a","t","u","s">> :> "status") @@
    (<<"s","o","u","r","c","e">> :> "None") @@
    (<<"o","r","d","e","r">> :> "None")

(***************************************************************************)
(* Results of evaluating a term: a bool, or a raised exception             *)
(***************************************************************************)
Return(b) == [raised |-> FALSE, val |-> b, kind |-> "", msg |-> <<>>]

Raise(kind, msg) == [raised |-> TRUE, val |-> FALSE, kind |-> kind, msg |-> msg]

\* the exception a failing converter raises, whatever its Python type
ConvertError == Raise("ConvertError", <<>>)

\* ValueError(f"Invalid search term value: '{tag}:{value}'.")
InvalidTermValue(tag, value) == Raise("InvalidTermValue", tag \o <<":">> \o value)

\* _tag_present
_tag_present(post, tag) ==
    Contains(<<" ">> \o tag \o <<" ">>, <<" ">> \o post.tag_string \o <<" ">>)

\* info_v OP convert(operand), c being the outcome of convert(operand);
\* what convert raises leaves compare
CompareWith(info_v, op, c) ==
    IF ~c.ok THEN ConvertError
    ELSE IF op = ">=" THEN Return(info_v >= c.v)
    ELSE IF op = "<=" THEN Return(info_v <= c.v)
    ELSE IF op = ">" THEN Return(info_v > c.v)
    ELSE Return(info_v < c.v)

\* convert(begin) <= info_v <= convert(end): a chained comparison, which
\* does not evaluate convert(end) when the first comparison is false
Between(convert, begin, info_v, end, negate) ==
    LET b == ConvertStr(convert, begin)
        e == ConvertStr(convert, end)
    IN  IF ~b.ok THEN ConvertError
        ELSE IF ~(b.v <= info_v) THEN Return(negate)
        ELSE IF ~e.ok THEN ConvertError
        ELSE Return((info_v <= e.v) # negate)

\* a failed conversion is taken for a term that does not match
equal_or_absent(tag, c, info_v, value, eq_fuzzy_20) ==
    IF ~c.ok THEN Return(FALSE)
    ELSE IF eq_fuzzy_20
         THEN Return(19 * c.v <= 20 * info_v /\ 20 * info_v <= 21 * c.v)
         ELSE Return(info_v = c.v)

\* lines 97-109 of compare, c being the outcome of convert(value): the
\* comparison value - value / 20 <= info_v <= value + value / 20 is taken
\* times 20 to stay within the integers
equal(tag, c, info_v, value, eq_fuzzy_20) ==
    IF ~c.ok THEN InvalidTermValue(tag, value)
    ELSE IF eq_fuzzy_20
         THEN Return(19 * c.v <= 20 * info_v /\ 20 * info_v <= 21 * c.v)
         ELSE Return(info_v = c.v)

\* _meta_num_match.compare (tag is the enclosing function's variable)
compare(tag, convert, info_v, value, eq_fuzzy_20, reverse_cmp) ==
    IF value = <<"n","o","n","e">> THEN Return(~Truthy(convert, info_v))
    ELSE IF value = <<"a","n","y">> THEN Return(Truthy(convert, info_v))
    ELSE IF startswith(value, <<">","=">>)
         THEN CompareWith(info_v, ">=", ConvertStr(convert, Drop(value, 2)))
    ELSE IF endswith(value, <<".",".">>)
         THEN CompareWith(info_v, ">=", ConvertStr(convert, Take(value, Len(value) - 2)))
    ELSE IF startswith(value, <<"<","=">>) \/ startswith(value, <<".",".">>)
         THEN CompareWith(info_v, "<=", ConvertStr(convert, Drop(value, 2)))
    ELSE IF startswith(value, <<">">>)
         THEN CompareWith(info_v, ">", ConvertStr(convert, Drop(value, 1)))
    ELSE IF startswith(value, <<"<">>)
         THEN CompareWith(info_v, "<", ConvertStr(convert, Drop(value, 1)))
    ELSE IF Contains(<<".",".">>, value) THEN
        LET parts == SplitOnce(value, <<".",".">>)
        IN  IF reverse_cmp
            THEN Between(convert, parts[2], info_v, parts[1], TRUE)
            ELSE Between(convert, parts[1], info_v, parts[2], FALSE)
    ELSE IF Contains(<<",">>, value)
         THEN Return(str(convert, info_v) \in Range(Split(value, <<",">>)))
    ELSE equal(tag, ConvertStr(convert, value), info_v, value, eq_fuzzy_20)

\* the final inversion for reverse_cmp left out
result_as_compared(result, reverse_cmp) == result

\* line 117: return result if not reverse_cmp else not result
\* (an exception raised by compare passes through)
result_of(result, reverse_cmp) ==
    IF result.raised THEN result
    ELSE IF ~reverse_cmp THEN result
    ELSE Return(~result.val)

\* _meta_num_match
_meta_num_match(post, tag, value) ==
    LET convert     == META_NUM_TAGS[tag].convert
        info_v      == ConvertField(convert, post, META_NUM_TAGS[tag].field)
        eq_fuzzy_20 == "eq_fuzzy_20" \in META_NUM_TAGS[tag].flags
        reverse_cmp == "reverse_cmp" \in META_NUM_TAGS[tag].flags
    IN  result_of(compare(tag, convert, info_v, value, eq_fuzzy_20, reverse_cmp),
                  reverse_cmp)

(***************************************************************************)
(* String metatags: META_STR_TAGS_FUNCS[name](post, value).  post.is_ maps *)
(* the suffix k of every key "is_<k>" of the post to its value.            *)
(***************************************************************************)
call_META_STR_TAGS_FUNCS(name, p, v) ==
    LET f == META_STR_TAGS_FUNCS[name] IN
    IF f = "None" THEN Raise("TypeError", <<>>)
    ELSE IF f = "md5" THEN Return(p.md5 = v)
    ELSE IF f = "filetype" THEN Return(p.file_ext = v)
    ELSE IF f = "dltype" THEN Return(p.dl_ext = v)
    ELSE IF f = "rating" THEN Return(startswith(p.rating, v))
    ELSE IF f = "locked" THEN
        LET k == v \o <<"_","l","o","c","k","e","d">>
        IN  IF k \in DOMAIN p.is_ THEN Return(p.is_[k]) ELSE Raise("KeyError", <<>>)
    ELSE \* status
        IF v \in {<<"a","n","y">>, <<"a","l","l">>} THEN Return(TRUE)
        ELSE IF v \in DOMAIN p.is_ THEN Return(p.is_[v]) ELSE Raise("KeyError", <<>>)

\* tag.rstrip("~-")
RECURSIVE rstrip(_)
rstrip(s) ==
    IF s # <<>> /\ s[Len(s)] \in {"~", "-"} THEN rstrip(SubSeq(s, 1, Len(s) - 1)) ELSE s

\* the body of the second loop of _filter_post for one term
eval_meta_num(post, tag_val) ==
    LET parts == SplitOnce(tag_val, <<":">>) IN
    IF Len(parts) < 2 THEN Raise("ValueError", <<>>)     \* cannot unpack
    ELSE IF rstrip(parts[1]) \notin DOMAIN META_NUM_TAGS THEN Raise("KeyError", <<>>)
    ELSE _meta_num_match(post, rstrip(parts[1]), parts[2])

\* the body of the third loop of _filter_post for one term
eval_meta_str(post, tag_val) ==
    LET parts == SplitOnce(tag_val, <<":">>) IN
    IF Len(parts) < 2 THEN Raise("ValueError", <<>>)     \* cannot unpack
    ELSE call_META_STR_TAGS_FUNCS(parts[1], post, parts[2])

\* the orders in which a loop may visit the members of a set
Orders(S) ==
    {o \in [1..Cardinality(S) -> S] : \A i, j \in 1..Cardinality(S) : o[i] = o[j] => i = j}

\* the evaluations of the three loops, in the order they run:
\* simple_tags, then meta_num, then meta_str
evaluations(post, simple_tags, meta_num, meta_str) ==
    [i \in 1..Len(simple_tags) |-> Return(_tag_present(post, simple_tags[i]))]
    \o [i \in 1..Len(meta_num) |-> eval_meta_num(post, meta_num[i])]
    \o [i \in 1..Len(meta_str) |-> eval_meta_str(post, meta_str[i])]

\* the decision loop of _filter_post over presences.items()
RECURSIVE decide(_, _, _, _, _)
decide(terms, ev, i, tilde_tag_in_search, one_tilde_tag_present) ==
    IF i > Len(terms)
    THEN Return(~(tilde_tag_in_search /\ ~one_tilde_tag_present))
    ELSE LET term == terms[i]  present == ev[i].val IN
        IF term = <<>> THEN Raise("IndexError", <<>>)        \* term[0]
        ELSE IF term[1] = "-" /\ present THEN Return(FALSE)
        ELSE IF term[1] # "~" /\ ~present THEN Return(FALSE)
        ELSE IF term[1] = "~"
             THEN decide(terms, ev, i + 1, TRUE, one_tilde_tag_present \/ present)
             ELSE decide(terms, ev, i + 1, tilde_tag_in_search, one_tilde_tag_present)

\* _filter_post from the point where the three loops have run: ev[i] is
\* the evaluation of terms[i].  The first exception raised ends the call;
\* the result is [raised, val, kind, msg, presences].
aggregate(terms, ev, return_analyze) ==
    LET raises == {i \in 1..Len(ev) : ev[i].raised}
        presences == [t \in Range(terms) |->
                        ev[CHOOSE i \in 1..Len(terms) : terms[i] = t].val]
        with(r, pr) == [raised |-> r.raised, val |-> r.val, kind |-> r.kind,
                        msg |-> r.msg, presences |-> pr]
    IN  IF raises # {} THEN with(ev[Min(raises)], <<>>)
        ELSE IF return_analyze THEN with(Return(TRUE), presences)
        ELSE with(decide(terms, ev, 1, FALSE, FALSE), <<>>)

\* _filter_post; the three sets are given in the order their loops visit them
_filter_post(post, simple_tags, meta_num, meta_str, return_analyze) ==
    aggregate(simple_tags \o meta_num \o meta_str,
              evaluations(post, simple_tags, meta_num, meta_str),
              return_analyze)

(***************************************************************************)
(* search: the classifier                                                  *)
(***************************************************************************)
\* t.split(":")[0]
name_of(t) == Split(t, <<":">>)[1]

classify_meta_num(terms) == {t \in terms : name_of(t) \in DOMAIN META_NUM_TAGS}

\* every name:value token taken for a string metatag
classify_any_meta(terms) == {t \in terms : Contains(<<":">>, t)}

classify_meta_str(terms) == {t \in terms : name_of(t) \in DOMAIN META_STR_TAGS_FUNCS}

classify_tags(terms) == (terms \ classify_meta_num(terms)) \ classify_meta_str(terms)

\* the newest item put first
yield_first(produced, item) == <<item>> \o produced

\* what `yield post` adds to the sequence the caller receives
yield(produced, item) == Append(produced, item)

(***************************************************************************)
(* The state of one call of search(posts, terms, yield_analyze); the str   *)
(* parameter `terms` is `query`, the set it is rebound to is `terms`.      *)
(***************************************************************************)
VARIABLES posts, query, yield_analyze, pc, terms, tags, meta_num, meta_str,
          idx, out, analysis, err

vars == <<posts, query, yield_analyze, pc, terms, tags, meta_num, meta_str,
          idx, out, analysis, err>>

NoError == [raised |-> FALSE, val |-> FALSE, kind |-> "", msg |-> <<>>]

\* an exception leaves the generator
Raised(e) ==
    /\ pc' = "raised"
    /\ err' = [raised |-> TRUE, val |-> FALSE, kind |-> e.kind, msg |-> e.msg]

\* lines 166-171 once shlex.split has returned r
Classified(r) ==
    IF r.raised
    THEN /\ Raised(Raise("ValueError", <<>>))
         /\ UNCHANGED <<terms, tags, meta_num, meta_str>>
    ELSE /\ pc' = "loop"
         /\ terms' = Range(r.tokens)
         /\ meta_num' = classify_meta_num(Range(r.tokens))
         /\ meta_str' = classify_meta_str(Range(r.tokens))
         /\ tags' = classify_tags(Range(r.tokens))
         /\ err' = err

\* lines 166-171: runs when the generator is first advanced
Classify ==
    /\ pc = "start"
    /\ Classified(shlex_split(query))
    /\ UNCHANGED <<posts, query, yield_analyze, idx, out, analysis>>

\* lines 179-180 once _filter_post has returned r
Filtered(post, r) ==
    IF r.raised
    THEN /\ Raised(r)
         /\ UNCHANGED <<idx, out>>
    ELSE /\ idx' = idx + 1
         /\ out' = IF r.val THEN yield(out, post) ELSE out
         /\ UNCHANGED <<pc, err>>

\* lines 178-180: one iteration of the filtering loop
Filter ==
    /\ pc = "loop" /\ ~yield_analyze /\ idx < Len(posts)
    /\ \E ot \in Orders(tags), on \in Orders(meta_num), os \in Orders(meta_str) :
        Filtered(posts[idx + 1], _filter_post(posts[idx + 1], ot, on, os, FALSE))
    /\ UNCHANGED <<posts, query, yield_analyze, terms, tags, meta_num, meta_str, analysis>>

\* line 175 once _filter_post has returned r
Analyzed(post, r) ==
    IF r.raised
    THEN /\ Raised(r)
         /\ UNCHANGED <<idx, analysis>>
    ELSE /\ idx' = idx + 1
         /\ analysis' = yield(analysis, [post |-> post, presences |-> r.presences])
         /\ UNCHANGED <<pc, err>>

\* lines 174-175: one iteration of the analysing loop
Analyze ==
    /\ pc = "loop" /\ yield_analyze /\ idx < Len(posts)
    /\ \E ot \in Orders(tags), on \in Orders(meta_num), os \in Orders(meta_str) :
        Analyzed(posts[idx + 1], _filter_post(posts[idx + 1], ot, on, os, TRUE))
    /\ UNCHANGED <<posts, query, yield_analyze, terms, tags, meta_num, meta_str, out>>

\* line 176 and the end of the function: the generator is exhausted
Exhaust ==
    /\ pc = "loop" /\ idx = Len(posts)
    /\ pc' = "done"
    /\ UNCHANGED <<posts, query, yield_analyze, terms, tags, meta_num, meta_str,
                   idx, out, analysis, err>>

Next == Classify \/ Filter \/ Analyze \/ Exhaust

(***************************************************************************)
(* Inputs: the posts and queries search is called with                     *)
(***************************************************************************)
BasePost ==
    [tag_string |-> <<>>, image_width |-> 2, image_height |-> 1, score |-> 0,
     fav_count |-> 0, id |-> 1, pixiv_id |-> 0, tag_count |-> 0,
     tag_count_general |-> 0, tag_count_artist |-> 0, tag_count_character |-> 0,
     tag_count_copyright |-> 0, tag_count_meta |-> 0, created_at |-> Now - 3,
     parent_id |-> 0, children_num |-> 0, file_size |-> 100, dl_size |-> 100,
     md5 |-> <<"x">>, file_ext |-> <<"x">>, dl_ext |-> <<"x">>, rating |-> <<"s">>,
     is_ |-> (<<"n","o","t","e","_","l","o","c","k","e","d">> :> FALSE) @@ (<<"x">> :> TRUE)]

Tagged(tag_string, image_width) ==
    [BasePost EXCEPT !.tag_string = tag_string, !.image_width = image_width]

Measured(image_width, created_at, file_size) ==
    [BasePost EXCEPT !.image_width = image_width, !.created_at = created_at,
                     !.file_size = file_size]

TaggedPosts ==
    {Tagged(<<"b","a","z">>, 2), Tagged(<<"b","a","z"," ","f","o","o">>, 2), Tagged(<<"f","o","o"," ","b","a","z">>, 1),
     Tagged(<<"f","o","o","s"," ","b","a","z">>, 2)}

ClassifiedPosts == {Tagged(<<"f","o","o">>, 2), Tagged(<<"b","a","z"," ","w","i","d","t","h">>, 1), Tagged(<<>>, 2)}

MeasuredPosts ==
    {Measured(0, Now, 100), Measured(2, Now - 1, 105), Measured(1, Now - 7, 106),
     Measured(2, Now - 10, 94)}

TagWords ==
    <<<<"~","f","o","o">>,
     <<"~","b","a","r">>,
     <<"b","a","z">>,
     <<"-","f","o","o">>,
     <<"f","o","o">>,
     <<"\"","f","o","o"," ","b","a","z","\"">>,
     <<"w","i","d","t","h",":",">","=","2">>>>

ClassifyWords ==
    <<<<"w","i","d","t","h">>,
     <<"o","r","d","e","r">>,
     <<"w","i","d","t","h",":","2">>,
     <<"o","r","d","e","r",":","x">>,
     <<"m","d","5",":","x">>,
     <<"f","o","o">>,
     <<"f","o","o",":","x">>,
     <<"\"">>,
     <<"-","w","i","d","t","h",":","2">>>>

NumericWords ==
    <<<<"a","g","e",":","1","d",".",".","1","w">>,
     <<"a","g","e",":","1","w",".",".","1","d">>,
     <<"a","g","e",":","a","n","y">>,
     <<"a","g","e",":","n","o","n","e">>,
     <<"w","i","d","t","h",":","a","n","y">>,
     <<"w","i","d","t","h",":","x">>,
     <<"a","g","e",":","x">>,
     <<"f","i","l","e","s","i","z","e",":","x">>,
     <<"f","i","l","e","s","i","z","e",":","1","0","0">>,
     <<"w","i","d","t","h",":",">","=","x">>>>

\* the sequences over S of length at most n
SeqsUpTo(S, n) == UNION {[1..k -> S] : k \in 0..n}

\* the ways to pick at most n of the first k words, repeats allowed; search
\* makes a set of the words, so they are picked in the order of the list
Picks(k, n) ==
    {s \in SeqsUpTo(1..k, n) : \A i \in 1..(Len(s) - 1) : s[i] <= s[i + 1]}

Queries(words, n) ==
    {Join([i \in 1..Len(s) |-> words[s[i]]]) : s \in Picks(Len(words), n)}

Start(words, n, ps) ==
    /\ query \in Queries(words, n)
    /\ posts \in SeqsUpTo(ps, MaxPosts)
    /\ yield_analyze \in BOOLEAN
    /\ pc = "start"
    /\ terms = {} /\ tags = {} /\ meta_num = {} /\ meta_str = {}
    /\ idx = 0 /\ out = <<>> /\ analysis = <<>>
    /\ err = NoError

Init == Start(TagWords, MaxTerms, TaggedPosts)

Spec == Init /\ [][Next]_vars

InitClassify == Start(ClassifyWords, MaxClassifyTerms, ClassifiedPosts)

SpecClassify == InitClassify /\ [][Next]_vars

InitNumeric == Start(NumericWords, MaxNumericTerms, MeasuredPosts)

SpecNumeric == InitNumeric /\ [][Next]_vars

\* posts whose tags may begin with the marker characters, so that a marked
\* term can be present
AggregatePosts ==
    {Tagged(<<>>, 2),
     Tagged(<<"f","o","o">>, 1),
     Tagged(<<"~","f","o","o"," ","b","a","z">>, 2),
     Tagged(<<"-","f","o","o"," ","f","o","o">>, 2),
     Tagged(<<"b","a","z">>, 1)}

AggregateWords ==
    <<<<"'","'">>,
     <<"f","o","o">>,
     <<"~","f","o","o">>,
     <<"~","b","a","r">>,
     <<"-","f","o","o">>,
     <<"b","a","z">>,
     <<"w","i","d","t","h",":",">","=","2">>>>

InitAggregate == Start(AggregateWords, MaxAggregateTerms, AggregatePosts)

SpecAggregate == InitAggregate /\ [][Next]_vars

(***************************************************************************)
(* Properties                                                              *)
(***************************************************************************)
\* the whitespace-delimited tokens of a post's tag string
TagsOf(post) == Range(Words(post.tag_string))

HasSpace(t) == " " \in Range(t)

HasColon(t) == ":" \in Range(t)

Prefixed(t, c) == t # <<>> /\ t[1] = c

Yielded(i) == posts[i] \in Range(out)

\* C1: OR-group rule.  For a query of ~-prefixed tags and unprefixed tags, a
\* post that has every unprefixed tag is yielded iff it has at least one of
\* the tags named after a ~ marker.
C1_OrGroupRule ==
    (/\ ~yield_analyze /\ pc = "done" /\ meta_num = {} /\ meta_str = {}
     /\ \A t \in tags : t # <<>> /\ t[1] # "-" /\ ~HasSpace(t)
     /\ \E t \in tags : Prefixed(t, "~"))
    => \A i \in 1..Len(posts) :
        (\A t \in tags : ~Prefixed(t, "~") => t \in TagsOf(posts[i]))
        => (Yielded(i) <=> \E t \in tags : Prefixed(t, "~") /\ Tail(t) \in TagsOf(posts[i]))

\* C2: negated tag.  For a query with terms -T and other unmarked terms,
\* search yields exactly the posts that have no tag T and that satisfy all
\* the other terms.
C2_NegatedTag ==
    (/\ ~yield_analyze /\ pc = "done" /\ meta_str = {}
     /\ \A t \in tags : t # <<>> /\ t[1] # "~" /\ ~HasSpace(t)
     /\ \E t \in tags : Prefixed(t, "-"))
    => \A i \in 1..Len(posts) :
        Yielded(i) <=>
            /\ \A t \in tags : Prefixed(t, "-") => Tail(t) \notin TagsOf(posts[i])
            /\ \A t \in tags : ~Prefixed(t, "-") => t \in TagsOf(posts[i])
            /\ \A t \in meta_num : eval_meta_num(posts[i], t) = Return(TRUE)

\* C3: plain-tag presence.  Evaluating a plain-tag token T on a post is true
\* iff T is one of the whitespace-delimited tokens of the post's tag string.
C3_PlainTagPresence ==
    \A k \in 1..Len(analysis) : \A t \in tags :
        analysis[k].presences[t] <=> t \in TagsOf(analysis[k].post)

\* the tokens of the query, when it tokenizes
Tokenizes == ~shlex_split(query).raised

TokensOf(q) == Range(shlex_split(q).tokens)

\* C4: a query token without ':' is classified as a plain tag, also when it
\* equals a metatag name, and a query of such tokens raises no error.
C4_NoColonIsPlainTag ==
    (pc # "start" /\ Tokenizes)
    => /\ \A t \in terms : ~HasColon(t) => t \in tags
       /\ (\A t \in terms : ~HasColon(t)) => pc # "raised"

\* C5: classifier partition.  The plain-tag set, the numeric-metatag set and
\* the string-metatag set are pairwise disjoint and their union is the
\* deduplicated set of tokens of the query.
C5_ClassifierPartition ==
    (pc # "start" /\ Tokenizes)
    => /\ tags \cap meta_num = {}
       /\ tags \cap meta_str = {}
       /\ meta_num \cap meta_str = {}
       /\ tags \cup meta_num \cup meta_str = TokensOf(query)

\* C5 witness: a query with a repeated token and terms of two kinds has
\* been classified.
C5_Witness ==
    /\ pc = "loop" /\ tags # {} /\ meta_num # {}
    /\ Cardinality(terms) < Len(shlex_split(query).tokens)

\* the name and the value of a name:value term
NameOf(t) == SplitOnce(t, <<":">>)[1]

ValueOf(t) == SplitOnce(t, <<":">>)[2]

\* the converted field value a numeric term is compared with
FieldOf(post, t) == post[META_NUM_TAGS[NameOf(t)].field]

ConvertOf(t, v) == ConvertStr(META_NUM_TAGS[NameOf(t)].convert, v)

HasOperatorPrefix(v) ==
    \/ startswith(v, <<">">>) \/ startswith(v, <<"<">>) \/ startswith(v, <<".", ".">>)

\* name:A..B, an infix range of a reverse_cmp metatag with both ends parsable
IsReverseRange(t) ==
    /\ HasColon(t)
    /\ "reverse_cmp" \in META_NUM_TAGS[NameOf(t)].flags
    /\ ~HasOperatorPrefix(ValueOf(t)) /\ ~endswith(ValueOf(t), <<".", ".">>)
    /\ Contains(<<".", ".">>, ValueOf(t))
    /\ ConvertOf(t, SplitOnce(ValueOf(t), <<".", ".">>)[1]).ok
    /\ ConvertOf(t, SplitOnce(ValueOf(t), <<".", ".">>)[2]).ok

\* convert(B) <= value <= convert(A) for the term name:A..B
InsideRange(post, t) ==
    /\ ConvertOf(t, SplitOnce(ValueOf(t), <<".", ".">>)[2]).v <= FieldOf(post, t)
    /\ FieldOf(post, t) <= ConvertOf(t, SplitOnce(ValueOf(t), <<".", ".">>)[1]).v

C7_AnyNone ==
    \A k \in 1..Len(analysis) : \A t \in meta_num :
        /\ (HasColon(t) /\ ValueOf(t) = <<"a","n","y">>) =>
            (analysis[k].presences[t] <=>
                Truthy(META_NUM_TAGS[NameOf(t)].convert, FieldOf(analysis[k].post, t)))
        /\ (HasColon(t) /\ ValueOf(t) = <<"n","o","n","e">>) =>
            (analysis[k].presences[t] <=>
                ~Truthy(META_NUM_TAGS[NameOf(t)].convert, FieldOf(analysis[k].post, t)))

\* C8: a string-metatag term whose predicate is None is absent for every
\* post, and evaluating it raises no error.
C8_ReservedIsAbsent ==
    \A t \in meta_str :
        (HasColon(t) /\ META_STR_TAGS_FUNCS[NameOf(t)] = "None") =>
            /\ err.kind # "TypeError"
            /\ \A k \in 1..Len(analysis) : ~analysis[k].presences[t]

\* the decision of the aggregator for a post under the classified query
Accepted(post) ==
    \E ot \in Orders(tags), on \in Orders(meta_num), os \in Orders(meta_str) :
        _filter_post(post, ot, on, os, FALSE) =
            [raised |-> FALSE, val |-> TRUE, kind |-> "", msg |-> <<>>, presences |-> <<>>]

\* C9: without yield_analyze and with no term raising, the posts produced so
\* far are the accepted ones among the posts consumed, in input order; once
\* the generator is exhausted every post has been consumed.
C9_OutputOrder ==
    (~yield_analyze /\ pc \in {"loop", "done"})
    => /\ out = SelectSeq(SubSeq(posts, 1, idx), Accepted)
       /\ pc = "done" => idx = Len(posts)

\* C9 witness: of two different posts the first was rejected and omitted, the
\* second accepted and produced.
C9_Witness ==
    /\ ~yield_analyze /\ pc = "done" /\ Len(posts) = 2 /\ posts[1] # posts[2]
    /\ ~Accepted(posts[1]) /\ out = <<posts[2]>>

\* a value that is none of the special syntaxes
IsPlainValue(v) ==
    /\ v \notin {<<"n","o","n","e">>, <<"a","n","y">>}
    /\ ~HasOperatorPrefix(v)
    /\ ~Contains(<<".", ".">>, v) /\ ~Contains(<<",">>, v)

\* a numeric term whose plain value its converter cannot parse
IsInvalidTerm(t) ==
    HasColon(t) /\ IsPlainValue(ValueOf(t)) /\ ~ConvertOf(t, ValueOf(t)).ok

\* C10: evaluating a numeric term with an unparsable plain value raises the
\* invalid-term-value error naming tag:value; search with such a term yields
\* and skips no post, and the error it ends with is of that kind and names
\* such a term when no other numeric term raises.
C10_InvalidTermValue ==
    \A t \in meta_num : IsInvalidTerm(t) =>
        /\ \A i \in 1..Len(posts) :
            eval_meta_num(posts[i], t) = Raise("InvalidTermValue", t)
        /\ idx = 0 /\ out = <<>> /\ analysis = <<>>
        /\ pc = "done" => posts = <<>>
        /\ (/\ pc = "raised"
            /\ \A u \in meta_num : IsInvalidTerm(u) \/ ~eval_meta_num(posts[1], u).raised)
           => (err.kind = "InvalidTermValue" /\ err.msg \in meta_num /\ IsInvalidTerm(err.msg))

\* C10 witness: search over a post ended with the invalid-term-value error
\* for a term of the flagged metatag age.
C10_Witness ==
    /\ pc = "raised" /\ posts # <<>>
    /\ err = Raise("InvalidTermValue", <<"a","g","e",":","x">>)

\* the entry of the presence map of a post for a term of the classified query
PresenceOf(post, t) ==
    IF t \in meta_num THEN eval_meta_num(post, t)
    ELSE IF t \in meta_str THEN eval_meta_str(post, t)
    ELSE Return(_tag_present(post, t))

HasPresenceMap(post) == \A t \in terms : ~PresenceOf(post, t).raised

\* no term marked - is present, every term not marked ~ is present, and a
\* term marked ~ is present if there is any term marked ~
ClosedForm(post) ==
    LET present(t) == PresenceOf(post, t).val IN
    /\ ~\E t \in terms : Prefixed(t, "-") /\ present(t)
    /\ \A t \in terms : ~Prefixed(t, "~") => present(t)
    /\ (\E t \in terms : Prefixed(t, "~")) => \E t \in terms : Prefixed(t, "~") /\ present(t)

\* whatever the order in which the loops visit the terms, _filter_post
\* returns the closed form for the post
DecisionIsClosedForm(post) ==
    \A ot \in Orders(tags), on \in Orders(meta_num), os \in Orders(meta_str) :
        _filter_post(post, ot, on, os, FALSE) =
            [raised |-> FALSE, val |-> ClosedForm(post), kind |-> "", msg |-> <<>>,
             presences |-> <<>>]

\* C11: aggregator order independence.  For a post whose presence map exists,
\* the decision of _filter_post is the same for every iteration order of the
\* terms and equals the closed form; so search never ends in the decision loop
\* and yields a consumed post iff the closed form holds for it.
C11_OrderIndependence ==
    pc # "start"
    => /\ \A i \in 1..Len(posts) : HasPresenceMap(posts[i]) => DecisionIsClosedForm(posts[i])
       /\ err.kind # "IndexError"
       /\ ~yield_analyze => \A i \in 1..idx : Yielded(i) <=> ClosedForm(posts[i])

\* C11 for queries without an empty token: the decision is the same for every
\* iteration order and equals the closed form.
C11_NonEmptyTermsAgree ==
    (pc # "start" /\ <<>> \notin terms)
    => /\ \A i \in 1..Len(posts) : HasPresenceMap(posts[i]) => DecisionIsClosedForm(posts[i])
       /\ err.kind # "IndexError"
       /\ ~yield_analyze => \A i \in 1..idx : Yielded(i) <=> ClosedForm(posts[i])

\* C11: the decision for a post depends on the order in which the terms are
\* visited: one order returns a rejection, another raises.
C11_OrderDependent ==
    /\ pc # "start" /\ posts # <<>> /\ HasPresenceMap(posts[1])
    /\ \E ot \in Orders(tags), pt \in Orders(tags) :
        /\ _filter_post(posts[1], ot, <<>>, <<>>, FALSE).raised
        /\ ~_filter_post(posts[1], pt, <<>>, <<>>, FALSE).raised
    /\ meta_num = {} /\ meta_str = {}

====
